---------------------------- MODULE Spec2Model ----------------------------
(***************************************************************************)
(* Model of ocr_app.py: one Streamlit script that is run top to bottom on  *)
(* every render pass.  A pass is started by one front-end event (page      *)
(* load, file upload, button click) and is modelled as a chain of steps    *)
(* driven by pc; between passes only st.session_state, the widget values   *)
(* held by the front end and the filesystem survive.                       *)
(*                                                                         *)
(* Names are sequences of string tokens ("a.pdf" is <<"a", ".pdf">>), a    *)
(* path is a sequence of names, file contents are sequences of tokens.     *)
(***************************************************************************)
EXTENDS Naturals, Sequences, FiniteSets, TLC

VARIABLES
    api_key,           \* os.getenv("GEMINI_API_KEY"): <<>> when the variable is not set
    uploaded_zip,      \* value of st.file_uploader held by the front end
    session_state,     \* st.session_state (a function from keys to values)
    fs,                \* the filesystem: [dirs, files]
    pc,                \* position of the running pass ("idle" between passes)
    start_clicked,     \* trigger value st.button("Start OCR") returns in this pass
    download_clicked,  \* trigger value st.download_button returns in this pass
    start_shown,       \* the last pass put the Start OCR button on the page
    download_shown,    \* the last pass put the download button on the page
    rerun_requested,   \* st.rerun() was called: the next pass is the forced one
    pdfs,              \* process_pdfs: list of discovered PDF paths
    idx,               \* process_pdfs: 0-based index of the document in hand
    images,            \* process_pdfs: number of page images of the document
    page,              \* process_pdfs: 0-based index of the page in hand (i)
    total_tokens_used, \* process_pdfs: running usage total
    structure_output,  \* process_pdfs: list of structure lines
    progress,          \* values handed to progress_placeholder.progress
    zipped,            \* buffer returned by zip_folder: relative path -> content
    exc,               \* uncaught exception that ended the pass ("" if none)
    notice,            \* message of the cleanup block ("", "success", "warning")
    ev,                \* history: the event the current/last pass handles
    prev_download,     \* history: the pass before it handled a download click alone
    ocr_done,          \* history: process_pdfs returned in the current/last pass
    zipped_in_pass,    \* history: zip_folder ran in the current/last pass
    cleanups,          \* history: runs of the cleanup block in this pass
    deleted,           \* history: <<step, role>> deletions of this pass
    written,           \* history: transcript path -> number of writes in this job
    reported,          \* history: sum of the usage the OCR calls of this job reported
    last_ocr,          \* history: the last OCR call on the document in hand
    stale              \* history: roles cleared of another job's content

vars == <<api_key, uploaded_zip, session_state, fs, pc, start_clicked, download_clicked,
          start_shown, download_shown, rerun_requested, pdfs, idx, images, page,
          total_tokens_used, structure_output, progress, zipped, exc, notice,
          ev, prev_download, ocr_done, zipped_in_pass, cleanups,
          deleted, written, reported, last_ocr, stale>>

---------------------------------------------------------------------------
(* Bounds of the model *)

MaxPages == 2      \* pages of the largest document of the upload catalogue
MaxUsage == 1      \* largest usage value one OCR call reports
MaxDocs == 2       \* files per uploaded archive

---------------------------------------------------------------------------
(* Names: str.lower, str.endswith, os.path.splitext, os.path.join *)

Lower(tok) == IF tok = ".PDF" THEN ".pdf" ELSE tok

Extensions == {".pdf", ".PDF", ".txt", ".zip"}

\* os.path.splitext(name)[0]: drop a trailing extension unless it is the
\* whole name (a leading dot does not start an extension)
splitext(name) ==
    IF Len(name) > 1 /\ name[Len(name)] \in Extensions
    THEN SubSeq(name, 1, Len(name) - 1)
    ELSE name

basename(path) == path[Len(path)]

dirname(path) == SubSeq(path, 1, Len(path) - 1)

\* a filter that lets every file through
IsPdfName_any(name) == Len(name) >= 1

\* file.lower().endswith(".pdf")
IsPdfName(name) == Lower(name[Len(name)]) = ".pdf"

\* str(n) for the page numbers of the model
DecStr(n) == <<"0", "1", "2", "3", "4", "5", "6", "7", "8", "9">>[n + 1]

IsPrefix(p, q) == Len(p) <= Len(q) /\ SubSeq(q, 1, Len(p)) = p

\* os.path.relpath(path, start) for a path below start
relpath(path, start) == SubSeq(path, Len(start) + 1, Len(path))

OutputRoot == << <<"output">> >>

---------------------------------------------------------------------------
(* File contents *)

PdfBytes(n) == <<"%PDF">> \o [k \in 1..n |-> "page"]

CorruptPdf == <<"%PDF", "garbage">>

\* a rasterizer that looks at the header only
Rasterizable_by_header(bytes) ==
    /\ Len(bytes) >= 1
    /\ bytes[1] = "%PDF"

\* fitz.open / page.get_pixmap succeed on every page
Rasterizable(bytes) ==
    /\ Len(bytes) >= 1
    /\ bytes[1] = "%PDF"
    /\ \A k \in 2..Len(bytes) : bytes[k] = "page"

PageCount(bytes) == Len(bytes) - 1

\* the default of getattr(response, "text", ...), after its warning sign
Sentinel == "No OCR output"

---------------------------------------------------------------------------
(* Filesystem: os.path.exists, shutil.rmtree, os.makedirs, open(.., "w"),  *)
(* os.remove, os.listdir, os.walk                                          *)

NoFiles == [q \in {} |-> <<>>]

EmptyFs == [dirs |-> {<<>>}, files |-> NoFiles]

exists(f, p) == p \in f.dirs \/ p \in DOMAIN f.files

Keep(files, S) == [q \in S |-> files[q]]

\* a removal that also unlinks a plain file
rmtree_or_unlink(f, p) ==
    [dirs  |-> {d \in f.dirs : ~IsPrefix(p, d)},
     files |-> Keep(f.files, {q \in DOMAIN f.files : ~IsPrefix(p, q)})]

\* shutil.rmtree(p, ignore_errors=True): removes a directory tree; on a
\* plain file or a missing path the error is swallowed and nothing changes
rmtree(f, p) ==
    IF p \in f.dirs
    THEN [dirs  |-> {d \in f.dirs : ~IsPrefix(p, d)},
          files |-> Keep(f.files, {q \in DOMAIN f.files : ~IsPrefix(p, q)})]
    ELSE f

Prefixes(p) == {SubSeq(p, 1, k) : k \in 0..Len(p)}

\* os.makedirs raises FileExistsError when the leaf exists and exist_ok is
\* not given, or when any component is a plain file
makedirs_raises(f, p, exist_ok) ==
    \/ p \in f.dirs /\ ~exist_ok
    \/ \E q \in Prefixes(p) : q \in DOMAIN f.files

makedirs(f, p) == [f EXCEPT !.dirs = @ \cup Prefixes(p)]

\* open(p, "w") raises when the parent is no directory or p is a directory
open_raises(f, p) == dirname(p) \notin f.dirs \/ p \in f.dirs

\* open(p, "w"); write(bytes): creates or truncates
write_file(f, p, bytes) ==
    [f EXCEPT !.files = (p :> bytes) @@ @]

\* os.remove(p)
remove(f, p) ==
    [f EXCEPT !.files = Keep(@, DOMAIN @ \ {p})]

listdir(f, p) ==
    {q \in f.dirs \cup DOMAIN f.files : Len(q) = Len(p) + 1 /\ IsPrefix(p, q)}

\* every file below top, as os.walk visits them
FilesUnder(f, top) == {q \in DOMAIN f.files : IsPrefix(top, q) /\ q # top}

\* all orders of the list comprehension over os.walk(top): the files of a
\* directory come before those of its subdirectories, every subtree is
\* visited in one piece, the order inside a directory is the platform's
WalkOrders(S) ==
    {s \in [1..Cardinality(S) -> S] :
        /\ \A i, j \in DOMAIN s : i # j => s[i] # s[j]
        /\ \A i, j \in DOMAIN s :
               (/\ dirname(s[i]) # dirname(s[j])
                /\ IsPrefix(dirname(s[i]), dirname(s[j]))) => i < j
        /\ \A i, k \in DOMAIN s : \A j \in i..k :
               \A d \in Prefixes(dirname(s[i])) \cap Prefixes(dirname(s[k])) :
                   IsPrefix(d, s[j])}

---------------------------------------------------------------------------
(* Uploads the front end can hand to st.file_uploader *)

Pool ==
    [a   |-> [path |-> << <<"a", ".pdf">> >>,                   bytes |-> PdfBytes(MaxPages)],
     sa  |-> [path |-> << <<"sub">>, <<"deep">>, <<"a", ".PDF">> >>, bytes |-> PdfBytes(1)],
     sb  |-> [path |-> << <<"sub">>, <<"b", ".pdf">> >>,         bytes |-> PdfBytes(1)],
     bad |-> [path |-> << <<"bad", ".pdf">> >>,                 bytes |-> CorruptPdf],
     n   |-> [path |-> << <<"notes", ".txt">> >>,               bytes |-> <<"hello">>]]

PoolOrder == <<"a", "sa", "sb", "bad", "n">>

\* the bytes of the archive holding the members K
ZipBytes(K) == <<"PK">> \o SelectSeq(PoolOrder, LAMBDA k : k \in K)

\* zipfile.ZipFile(path, "r") raises BadZipFile on anything else
ZipValid(bytes) == Len(bytes) >= 1 /\ bytes[1] = "PK"

\* the members of an archive: relative path -> content
ZipEntries(bytes) ==
    LET K == {bytes[k] : k \in 2..Len(bytes)}
    IN  [p \in {Pool[k].path : k \in K} |->
            Pool[CHOOSE k \in K : Pool[k].path = p].bytes]

NotAZip == <<"garbage">>

UploadNames == {<<"book", ".zip">>}

NoUpload == [name |-> <<>>, data |-> <<>>]

Uploads ==
    {[name |-> nm, data |-> d] :
        nm \in UploadNames,
        d \in {ZipBytes(K) : K \in {X \in SUBSET DOMAIN Pool : Cardinality(X) <= MaxDocs}}
               \cup {NotAZip}}

\* zip_ref.extractall(target)
ExtractAll(f, entries, target) ==
    [dirs  |-> f.dirs \cup UNION {Prefixes(target \o dirname(p)) : p \in DOMAIN entries},
     files |-> [q \in DOMAIN f.files \cup {target \o p : p \in DOMAIN entries} |->
                  IF \E p \in DOMAIN entries : target \o p = q
                  THEN entries[relpath(q, target)]
                  ELSE f.files[q]]]

---------------------------------------------------------------------------
(* Paths of the Job, lines 102-104 and 122 *)

upload_name == splitext(uploaded_zip.name)

extract_dir == OutputRoot \o <<upload_name>>

zip_path == OutputRoot \o <<upload_name \o <<".zip">>>>

result_path == OutputRoot \o <<upload_name \o <<"_ocr">>>>

\* which of the Job's paths p is
Role(p) ==
    IF p = extract_dir THEN "extract"
    ELSE IF p = zip_path THEN "zip"
    ELSE IF p = result_path THEN "result"
    ELSE "other"

\* the log entry of a deleting call of `step` on p that took f to g
Gone(step, f, g, p) ==
    IF exists(f, p) /\ ~exists(g, p) THEN {<<step, Role(p)>>} ELSE {}

---------------------------------------------------------------------------
(* Initial state: nothing ran yet, the working directory is empty *)

NoLocals ==
    /\ pdfs' = <<>>
    /\ idx' = 0
    /\ images' = 0
    /\ page' = 0
    /\ total_tokens_used' = 0
    /\ structure_output' = <<>>
    /\ progress' = <<>>
    /\ zipped' = NoFiles
    /\ written' = NoFiles
    /\ reported' = 0
    /\ last_ocr' = <<>>

Init ==
    /\ api_key \in {<<>>, <<"key">>}
    /\ uploaded_zip = NoUpload
    /\ session_state = [k \in {} |-> FALSE]
    /\ fs = EmptyFs
    /\ pc = "idle"
    /\ start_clicked = FALSE
    /\ download_clicked = FALSE
    /\ start_shown = FALSE
    /\ download_shown = FALSE
    /\ rerun_requested = FALSE
    /\ pdfs = <<>>
    /\ idx = 0
    /\ images = 0
    /\ page = 0
    /\ total_tokens_used = 0
    /\ structure_output = <<>>
    /\ progress = <<>>
    /\ zipped = NoFiles
    /\ exc = ""
    /\ notice = ""
    /\ ev = "none"
    /\ prev_download = FALSE
    /\ ocr_done = FALSE
    /\ zipped_in_pass = FALSE
    /\ cleanups = 0
    /\ deleted = {}
    /\ written = NoFiles
    /\ reported = 0
    /\ last_ocr = <<>>
    /\ stale = {}

---------------------------------------------------------------------------
(* Start of a render pass: lines 13-18 and 100-101 *)

\* lines 17-18
InitSessionState(ss) ==
    IF "cleanup_trigger" \in DOMAIN ss
    THEN ss
    ELSE [k \in DOMAIN ss \cup {"cleanup_trigger"} |->
            IF k = "cleanup_trigger" THEN FALSE ELSE ss[k]]

\* the pass ends: the script's locals are gone
EndPass ==
    /\ pc' = "idle"
    /\ NoLocals

\* the script runs from the top for event e with file u in the uploader and
\* the trigger values sc, dc of the two buttons
Begin(e, u, sc, dc) ==
    /\ pc = "idle"
    /\ rerun_requested => e = "rerun"
    /\ uploaded_zip' = u
    /\ start_clicked' = sc
    /\ download_clicked' = dc
    /\ rerun_requested' = FALSE
    /\ session_state' = InitSessionState(session_state)
    /\ start_shown' = FALSE
    /\ download_shown' = FALSE
    /\ exc' = ""
    /\ notice' = ""
    /\ ev' = e
    /\ prev_download' = (ev = "download")
    /\ ocr_done' = FALSE
    /\ zipped_in_pass' = FALSE
    /\ cleanups' = 0
    /\ deleted' = {}
    /\ stale' = IF u = uploaded_zip THEN stale ELSE {}
    /\ NoLocals
    /\ pc' = IF u = NoUpload THEN "idle" ELSE "upload"
    /\ UNCHANGED <<api_key, fs>>

\* page load, an edit of the sidebar prompt, or the pass st.rerun() forces
PageRerun == Begin("rerun", uploaded_zip, FALSE, FALSE)

UploadFile ==
    \E u \in Uploads :
        /\ u # uploaded_zip
        /\ Begin("upload", u, FALSE, FALSE)

RemoveFile ==
    /\ uploaded_zip # NoUpload
    /\ Begin("remove", NoUpload, FALSE, FALSE)

ClickStart ==
    /\ start_shown
    /\ Begin("start", uploaded_zip, TRUE, FALSE)

ClickDownload ==
    /\ download_shown
    /\ Begin("download", uploaded_zip, FALSE, TRUE)

\* both buttons clicked before the script runner picked up the first click:
\* the two requests are coalesced into one pass that sees both triggers
ClickBoth ==
    /\ start_shown
    /\ download_shown
    /\ Begin("both", uploaded_zip, TRUE, TRUE)

---------------------------------------------------------------------------
(* Upload block, lines 101-121 *)

\* an uncaught exception ends the pass
Raise(e) ==
    /\ exc' = e
    /\ EndPass

\* a clearing that forgets the extract directory
ClearStaging_zip_only(f) == rmtree(f, zip_path)

\* a clearing that takes the result directory along
ClearStaging_with_result(f) ==
    rmtree(rmtree(rmtree(f, extract_dir), zip_path), result_path)

\* lines 106-109: "Cleanup if exists"
ClearStaging(f) == rmtree(rmtree(f, extract_dir), zip_path)

UploadBlock ==
    /\ pc = "upload"
    /\ LET f1 == rmtree(fs, extract_dir)
           f2 == ClearStaging(fs)
           f3 == makedirs(f2, extract_dir)
           f4 == write_file(f3, zip_path, uploaded_zip.data)
           f5 == ExtractAll(f4, ZipEntries(f4.files[zip_path]), extract_dir)
           old == [p \in FilesUnder(fs, extract_dir) |-> fs.files[p]]
       IN  /\ deleted' = deleted \cup Gone("upload", fs, f1, extract_dir)
                                  \cup Gone("upload", f1, f2, zip_path)
           /\ IF makedirs_raises(f2, extract_dir, TRUE)
              THEN /\ fs' = f2
                   /\ Raise("FileExistsError")
                   /\ UNCHANGED <<start_shown, stale>>
              ELSE IF open_raises(f3, zip_path)
              THEN /\ fs' = f3
                   /\ Raise("IsADirectoryError")
                   /\ UNCHANGED <<start_shown, stale>>
              ELSE IF ~ZipValid(f4.files[zip_path])
              THEN /\ fs' = f4
                   /\ Raise("BadZipFile")
                   /\ UNCHANGED <<start_shown, stale>>
              ELSE /\ fs' = f5
                   /\ stale' = stale
                        \cup (IF old # NoFiles
                                 /\ old # [p \in FilesUnder(f5, extract_dir) |-> f5.files[p]]
                              THEN {"extract"} ELSE {})
                        \cup (IF zip_path \in DOMAIN fs.files
                                 /\ fs.files[zip_path] # uploaded_zip.data
                              THEN {"zip"} ELSE {})
                   /\ start_shown' = TRUE
                   /\ exc' = exc
                   /\ IF start_clicked
                      THEN pc' = "start" /\ UNCHANGED <<pdfs, idx, images, page,
                               total_tokens_used, structure_output, progress,
                               zipped, written, reported, last_ocr>>
                      ELSE EndPass
    /\ UNCHANGED <<api_key, uploaded_zip, session_state, start_clicked, download_clicked,
                   download_shown, rerun_requested, notice, ev, prev_download, ocr_done,
                   zipped_in_pass, cleanups>>

---------------------------------------------------------------------------
(* Start OCR, lines 121-127, and process_pdfs, lines 55-84 *)

StartOCR ==
    /\ pc = "start"
    /\ LET f1 == rmtree(fs, result_path)
       IN  /\ deleted' = deleted \cup Gone("start", fs, f1, result_path)
           /\ stale' = stale \cup (IF FilesUnder(fs, result_path) # {}
                                   THEN {"result"} ELSE {})
           /\ IF makedirs_raises(f1, result_path, FALSE)
              THEN /\ fs' = f1
                   /\ Raise("FileExistsError")
              ELSE /\ fs' = makedirs(f1, result_path)
                   /\ pc' = "walk"
                   /\ UNCHANGED <<exc, pdfs, idx, images, page, total_tokens_used,
                                  structure_output, progress, zipped, written, reported, last_ocr>>
    /\ UNCHANGED <<api_key, uploaded_zip, session_state, start_clicked, download_clicked,
                   start_shown, download_shown, rerun_requested, notice, ev,
                   prev_download, ocr_done, zipped_in_pass, cleanups>>

\* lines 56-61: the locals and the discovered documents
Discover ==
    /\ pc = "walk"
    /\ \E s \in WalkOrders({q \in FilesUnder(fs, extract_dir) : IsPdfName(basename(q))}) :
           pdfs' = s
    /\ idx' = 0
    /\ total_tokens_used' = 0
    /\ structure_output' = <<>>
    /\ pc' = "doc"
    /\ UNCHANGED <<api_key, uploaded_zip, session_state, fs, start_clicked, download_clicked,
                   start_shown, download_shown, rerun_requested, images, page,
                   progress, zipped, exc, notice, ev, prev_download, ocr_done,
                   zipped_in_pass, cleanups, deleted, written, reported,
                   last_ocr, stale>>

\* line 64
chapter_name(pdf_file) == splitext(basename(pdf_file))

\* line 65
chapter_out(pdf_file) == result_path \o <<chapter_name(pdf_file)>>

\* pages numbered from 0
txt_name_from_zero(pdf_file, i) == chapter_name(pdf_file) \o <<"_page_", DecStr(i), ".txt">>

\* line 75: f"{chapter_name}_page_{i+1}.txt"
txt_name(pdf_file, i) == chapter_name(pdf_file) \o <<"_page_", DecStr(i + 1), ".txt">>

\* line 76
txt_path(pdf_file, i) == chapter_out(pdf_file) \o <<txt_name(pdf_file, i)>>

\* the folder line carrying the file name, extension included
FolderLine_with_extension(pdf_file) == <<"folder">> \o basename(pdf_file)

\* line 67: the folder line of a document, after its folder sign
FolderLine(pdf_file) == <<"folder">> \o chapter_name(pdf_file)

\* line 79: the file line of a page, after its branch and file signs
FileLine(pdf_file, i) == <<"file">> \o txt_name(pdf_file, i)

\* lines 63-69: the loop takes the next document, makes its folder and
\* rasterizes it into the list of page images
NextDocument ==
    /\ pc = "doc"
    /\ idx < Len(pdfs)
    /\ LET pdf_file == pdfs[idx + 1]
           bytes == fs.files[pdf_file]
       IN  IF makedirs_raises(fs, chapter_out(pdf_file), TRUE)
           THEN /\ Raise("FileExistsError")
                /\ UNCHANGED fs
           ELSE /\ fs' = makedirs(fs, chapter_out(pdf_file))
                /\ IF Rasterizable(bytes)
                   THEN /\ structure_output' = Append(structure_output, FolderLine(pdf_file))
                        /\ images' = PageCount(bytes)
                        /\ page' = 0
                        /\ pc' = "page"
                        /\ UNCHANGED <<exc, pdfs, idx, total_tokens_used, progress,
                                       zipped, written, reported, last_ocr>>
                   ELSE Raise("FileDataError")
    /\ UNCHANGED <<api_key, uploaded_zip, session_state, start_clicked, download_clicked,
                   start_shown, download_shown, rerun_requested, notice, ev,
                   prev_download, ocr_done, zipped_in_pass, cleanups,
                   deleted, stale>>

\* line 14: genai.configure takes whatever os.getenv returned, None included,
\* and checks nothing; the service answers only calls that carry a key
Configured(key) == key # <<>>

\* what model.generate_content can hand back: a response whose text and
\* usage_metadata.total_token_count attributes are present or absent
Responses ==
    [text  : {<<>>, <<"T">>},
     usage : {<<>>} \cup {<<u>> : u \in 0..MaxUsage}]

\* an adapter that forgets the usage of the call
ocr_with_gemini_no_usage(response) ==
    [text        |-> IF response.text = <<>> THEN Sentinel ELSE response.text[1],
     token_count |-> 0]

\* lines 41-44: getattr with the sentinel and 0 as defaults
ocr_with_gemini(response) ==
    [text        |-> IF response.text = <<>> THEN Sentinel ELSE response.text[1],
     token_count |-> IF response.usage = <<>> THEN 0 ELSE response.usage[1]]

\* usage_metadata.total_token_count as the service reported it, none as 0
ReportedUsage(response) ==
    IF Len(response.usage) = 0 THEN 0 ELSE response.usage[Len(response.usage)]

Bump(w, p) ==
    [q \in DOMAIN w \cup {p} |-> IF q \in DOMAIN w
                                 THEN (IF q = p THEN w[q] + 1 ELSE w[q])
                                 ELSE 1]

\* lines 70-79, one page: the OCR call returns and its text is written
OcrPage ==
    /\ pc = "page"
    /\ page < images
    /\ Configured(api_key)
    /\ \E response \in Responses :
         LET pdf_file == pdfs[idx + 1]
             got == ocr_with_gemini(response)
             path == txt_path(pdf_file, page)
         IN  /\ total_tokens_used' = total_tokens_used + got.token_count
             /\ last_ocr' =
                  <<[failed |-> response.text = <<>>, text |-> got.text,
                     token_count |-> got.token_count, usage |-> response.usage,
                     path |-> path]>>
             /\ fs' = write_file(fs, path, <<got.text>>)
             /\ written' = Bump(written, path)
             /\ reported' = reported + ReportedUsage(response)
             /\ structure_output' = Append(structure_output, FileLine(pdf_file, page))
             /\ page' = page + 1
    /\ UNCHANGED <<api_key, uploaded_zip, session_state, start_clicked, download_clicked,
                   start_shown, download_shown, rerun_requested, pdfs, idx, images,
                   progress, zipped, pc, exc, notice, ev, prev_download, ocr_done,
                   zipped_in_pass, cleanups, deleted, stale>>

\* lines 35-38 and 72: the call to the service raises (network, quota,
\* blocked content); nothing in ocr_with_gemini or process_pdfs catches it
OcrRaises ==
    /\ pc = "page"
    /\ page < images
    /\ Raise("OcrError")
    /\ UNCHANGED <<api_key, uploaded_zip, session_state, fs, start_clicked, download_clicked,
                   start_shown, download_shown, rerun_requested, notice, ev,
                   prev_download, ocr_done, zipped_in_pass, cleanups,
                   deleted, stale>>

\* the fraction of the documents before this one
Fraction_from_zero(k, n) == <<k - 1, n>>

\* line 81: (idx + 1) / len(pdfs), kept as <<numerator, denominator>>
Fraction(k, n) == <<k, n>>

\* line 81, after the last page of the document
DocumentDone ==
    /\ pc = "page"
    /\ page = images
    /\ IF Len(pdfs) = 0
       THEN Raise("ZeroDivisionError")
       ELSE /\ progress' = Append(progress, Fraction(idx + 1, Len(pdfs)))
            /\ idx' = idx + 1
            /\ pc' = "doc"
            /\ last_ocr' = <<>>
            /\ UNCHANGED <<exc, pdfs, images, page, total_tokens_used,
                           structure_output, zipped, written, reported>>
    /\ UNCHANGED <<api_key, uploaded_zip, session_state, fs, start_clicked, download_clicked,
                   start_shown, download_shown, rerun_requested, notice, ev,
                   prev_download, ocr_done, zipped_in_pass, cleanups,
                   deleted, stale>>

\* lines 83-84 and 130-131: the loop is over, the report is returned
ProcessReturn ==
    /\ pc = "doc"
    /\ idx = Len(pdfs)
    /\ ocr_done' = TRUE
    /\ pc' = "zip"
    /\ UNCHANGED <<api_key, uploaded_zip, session_state, fs, start_clicked, download_clicked,
                   start_shown, download_shown, rerun_requested, pdfs, idx, images,
                   page, total_tokens_used, structure_output, progress, zipped,
                   exc, notice, ev, prev_download, zipped_in_pass,
                   cleanups, deleted, written, reported, last_ocr, stale>>

---------------------------------------------------------------------------
(* zip_folder, lines 86-95, and the download button, lines 134-140 *)

\* an archive whose members are named by file name alone
zip_folder_flat(f, folder_path) ==
    [rel \in {<<basename(q)>> : q \in FilesUnder(f, folder_path)} |->
        f.files[CHOOSE q \in FilesUnder(f, folder_path) : <<basename(q)>> = rel]]

\* lines 86-95: every file below folder_path, under its path relative to it
zip_folder(f, folder_path) ==
    [rel \in {relpath(q, folder_path) : q \in FilesUnder(f, folder_path)} |->
        f.files[folder_path \o rel]]

ZipFolder ==
    /\ pc = "zip"
    /\ zipped' = zip_folder(fs, result_path)
    /\ zipped_in_pass' = TRUE
    /\ pc' = "download"
    /\ UNCHANGED <<api_key, uploaded_zip, session_state, fs, start_clicked, download_clicked,
                   start_shown, download_shown, rerun_requested, pdfs, idx, images,
                   page, total_tokens_used, structure_output, progress, exc, notice,
                   ev, prev_download, ocr_done, cleanups, deleted, written, reported,
                   last_ocr, stale>>

\* lines 137-140: a click sets the flag and st.rerun() stops the pass
DownloadButton ==
    /\ pc = "download"
    /\ download_shown' = TRUE
    /\ IF download_clicked
       THEN /\ session_state' = [session_state EXCEPT !["cleanup_trigger"] = TRUE]
            /\ rerun_requested' = TRUE
            /\ EndPass
       ELSE /\ pc' = "cleanup"
            /\ UNCHANGED <<session_state, rerun_requested, pdfs, idx, images, page,
                           total_tokens_used, structure_output, progress, zipped,
                           written, reported, last_ocr>>
    /\ UNCHANGED <<api_key, uploaded_zip, fs, start_clicked, download_clicked, start_shown,
                   exc, notice, ev, prev_download, ocr_done, zipped_in_pass, cleanups, deleted, stale>>

---------------------------------------------------------------------------
(* Cleanup block, lines 143-155 *)

\* lines 145-151, the body of the try: the filesystem it leaves and the
\* exception it stops with ("" when it runs to the end); denied says that
\* the operating system refuses to remove the staged archive
CleanupTry(f, denied) ==
    LET f1 == rmtree(f, result_path)
        f2 == rmtree(f1, extract_dir)
        f3 == IF exists(f2, zip_path) THEN remove(f2, zip_path) ELSE f2
        f4 == IF exists(f3, OutputRoot) /\ listdir(f3, OutputRoot) = {}
              THEN rmtree(f3, OutputRoot) ELSE f3
        log == Gone("cleanup", f, f1, result_path)
                 \cup Gone("cleanup", f1, f2, extract_dir)
    IN  IF exists(f2, zip_path) /\ zip_path \in f2.dirs
        THEN [fs |-> f2, err |-> "IsADirectoryError", log |-> log]
        ELSE IF exists(f2, zip_path) /\ denied
        THEN [fs |-> f2, err |-> "PermissionError", log |-> log]
        ELSE [fs |-> f4, err |-> "",
              log |-> log \cup Gone("cleanup", f2, f3, zip_path)]

\* a handler that only expects a missing path
ExceptException_missing_only(err) == IF err = "FileNotFoundError" THEN "" ELSE err

\* line 152: what is left of the exception after `except Exception`
ExceptException(err) == ""

\* lines 143-155 for a set flag
CleanupStep(f, denied) ==
    LET t == CleanupTry(f, denied)
    IN  [fs      |-> t.fs,
         log     |-> t.log,
         notice  |-> IF t.err = "" THEN "success" ELSE "warning",
         exc     |-> ExceptException(t.err),
         trigger |-> FALSE]

CleanupBlock ==
    /\ pc = "cleanup"
    /\ IF session_state["cleanup_trigger"]
       THEN \E denied \in BOOLEAN :
              LET r == CleanupStep(fs, denied)
              IN  /\ fs' = r.fs
                  /\ deleted' = deleted \cup r.log
                  /\ notice' = r.notice
                  /\ exc' = r.exc
                  /\ session_state' = [session_state EXCEPT !["cleanup_trigger"] = r.trigger]
                  /\ cleanups' = cleanups + 1
       ELSE UNCHANGED <<fs, deleted, notice, exc, session_state, cleanups>>
    /\ EndPass
    /\ UNCHANGED <<api_key, uploaded_zip, start_clicked, download_clicked, start_shown,
                   download_shown, rerun_requested, ev, prev_download, ocr_done,
                   zipped_in_pass, stale>>

---------------------------------------------------------------------------

Next ==
    \/ PageRerun
    \/ UploadFile
    \/ RemoveFile
    \/ ClickStart
    \/ ClickDownload
    \/ ClickBoth
    \/ UploadBlock
    \/ StartOCR
    \/ Discover
    \/ NextDocument
    \/ OcrRaises
    \/ OcrPage
    \/ DocumentDone
    \/ ProcessReturn
    \/ ZipFolder
    \/ DownloadButton
    \/ CleanupBlock

Spec == Init /\ [][Next]_vars

---------------------------------------------------------------------------
(* Properties *)

Pending == "cleanup_trigger" \in DOMAIN session_state /\ session_state["cleanup_trigger"]

JobPathsGone ==
    /\ ~exists(fs, result_path)
    /\ ~exists(fs, extract_dir)
    /\ ~exists(fs, zip_path)

\* C1: after a download click handled alone, the re-render that follows runs
\* the cleanup block exactly once, the result directory, the extract
\* directory and the staged archive are gone and cleanup_trigger is False
C1_CleanupOnceOnNextPass ==
    (pc = "idle" /\ ev = "rerun" /\ prev_download) =>
        (cleanups = 1 /\ JobPathsGone /\ ~Pending)

\* C2: the cleanup block never runs in a pass in which zip_folder produced
\* the buffer
C2_CleanupNotInZipPass ==
    cleanups > 0 => ~zipped_in_pass

\* C3: the pass that handles a click on the download button ends with
\* cleanup_trigger True and a forced re-render
C3_DownloadSetsPending ==
    (pc = "idle" /\ ev \in {"download", "both"}) => (Pending /\ rerun_requested)

RECURSIVE SumPages(_, _)
SumPages(f, docs) ==
    IF docs = <<>> THEN 0
    ELSE PageCount(f.files[Head(docs)]) + SumPages(f, Tail(docs))

\* C4: when process_pdfs has returned, the result directory holds as many
\* transcripts as the discovered documents have pages, each written once
C4_OneTranscriptPerPage ==
    pc = "zip" =>
        /\ Cardinality(FilesUnder(fs, result_path)) = SumPages(fs, pdfs)
        /\ \A p \in DOMAIN written : written[p] = 1

\* C5: an OCR call that fails or yields no text never raises; it returns
\* the sentinel with usage 0 and the transcript of the page is written
C5_BadPageNeverAborts ==
    /\ exc # "OcrError"
    /\ (last_ocr # <<>> /\ last_ocr[1].failed) =>
          /\ last_ocr[1].text = Sentinel
          /\ last_ocr[1].token_count = 0
          /\ last_ocr[1].path \in DOMAIN fs.files
          /\ fs.files[last_ocr[1].path] = <<Sentinel>>

ZeroPdfUpload ==
    /\ ZipValid(uploaded_zip.data)
    /\ \A p \in DOMAIN ZipEntries(uploaded_zip.data) :
          basename(p)[Len(basename(p))] \notin {".pdf", ".PDF"}

\* C7: with an upload that holds no PDF, no pass raises, no progress value
\* is computed, the report is empty, the archive is empty, and a pass that
\* handles Start OCR runs on to the download button
C7_ZeroPdfs ==
    ZeroPdfUpload =>
        /\ exc = ""
        /\ progress = <<>>
        /\ structure_output = <<>>
        /\ pdfs = <<>>
        /\ pc # "page"
        /\ pc \in {"download", "cleanup"} => zipped = NoFiles
        /\ (pc = "idle" /\ start_clicked) => (zipped_in_pass /\ download_shown)

\* C7 witness: an upload with a file but no PDF got as far as the download button
C7_Witness ==
    /\ ZeroPdfUpload
    /\ pc = "download"
    /\ FilesUnder(fs, extract_dir) # {}
    /\ zipped = NoFiles

JobRoles == {"extract", "zip", "result"}

\* C8 as stated: the extract directory, the staged archive and the result
\* directory are deleted by the cleanup block only
C8_OnlyCleanupDeletes ==
    \A d \in deleted : d[2] \in JobRoles => d[1] = "cleanup"

\* C8 as amended: the staged archive is deleted by the cleanup block only;
\* the extract directory also by the upload block and the result directory
\* also by Start OCR, each of which recreates it before the pass goes on;
\* processing, zip_folder and the download button delete none of them
C8_DeletionsByStep ==
    /\ \A d \in deleted :
          \/ d[1] = "cleanup"
          \/ d = <<"upload", "extract">>
          \/ d = <<"start", "result">>
    /\ pc \in {"start", "walk", "doc", "page", "zip", "download", "cleanup"} =>
          (extract_dir \in fs.dirs /\ zip_path \in DOMAIN fs.files)
    /\ pc \in {"walk", "doc", "page", "zip", "download", "cleanup"} =>
          result_path \in fs.dirs

\* C8 witness: one pass in which the upload block, Start OCR and the cleanup
\* block each deleted what the amended claim allows them
C8_Witness ==
    deleted = {<<"upload", "extract">>, <<"start", "result">>,
               <<"cleanup", "result">>, <<"cleanup", "extract">>,
               <<"cleanup", "zip">>}

\* C9: when process_pdfs begins, the extract directory holds exactly the
\* members of the current upload, the staged archive holds its bytes and
\* the result directory is empty
C9_CleanJob ==
    pc = "walk" =>
        /\ {relpath(q, extract_dir) : q \in FilesUnder(fs, extract_dir)}
              = DOMAIN ZipEntries(uploaded_zip.data)
        /\ \A p \in DOMAIN ZipEntries(uploaded_zip.data) :
              fs.files[extract_dir \o p] = ZipEntries(uploaded_zip.data)[p]
        /\ \A d \in fs.dirs : IsPrefix(extract_dir, d) =>
              \/ d = extract_dir
              \/ \E p \in DOMAIN ZipEntries(uploaded_zip.data) :
                    IsPrefix(d, extract_dir \o p)
        /\ zip_path \in DOMAIN fs.files
        /\ fs.files[zip_path] = uploaded_zip.data
        /\ result_path \in fs.dirs
        /\ listdir(fs, result_path) = {}

\* C9 witness: process_pdfs begins after all three paths were cleared of the
\* content of an earlier upload of the same name
C9_Witness ==
    /\ pc = "walk"
    /\ stale = {"extract", "zip", "result"}

\* the entries the documents of the list call for
ExpectedEntries(f, docs) ==
    UNION {{ << splitext(basename(docs[k])),
                splitext(basename(docs[k])) \o <<"_page_", DecStr(n), ".txt">> >>
             : n \in 1..PageCount(f.files[docs[k]])} : k \in DOMAIN docs}

\* C10: the entries of the archive are exactly, for every discovered
\* document with stem c and n pages, c/c_page_1.txt .. c/c_page_n.txt
\* (documents with the same stem call for the same entries)
C10_ArchiveEntries ==
    pc \in {"download", "cleanup"} => DOMAIN zipped = ExpectedEntries(fs, pdfs)

\* C10 witness: an archive made from two documents, one of them below
\* subdirectories, with the pages of both in it
C10_Witness ==
    /\ pc = "download"
    /\ Len(pdfs) = 2
    /\ \E k \in DOMAIN pdfs : Len(pdfs[k]) > Len(extract_dir) + 1
    /\ Cardinality(DOMAIN zipped) = MaxPages + 1

InProcess == pc \in {"doc", "page", "zip"}

\* C11: the usage counter of a job is 0 before the first OCR call, never
\* decreases from one step of process_pdfs to the next, and always equals
\* the sum of the usage the calls so far reported, none counted as 0 (so
\* also after the last page)
C11_UsageCounter ==
    /\ [](/\ (pc = "doc" /\ idx = 0) => total_tokens_used = 0
          /\ pc \in {"doc", "page", "zip", "download", "cleanup"} =>
                total_tokens_used = reported)
    /\ [][(InProcess /\ InProcess') => total_tokens_used' >= total_tokens_used]_vars

\* C11 witness: process_pdfs returned after two calls or more, of which one
\* reported usage and another reported none or 0
C11_Witness ==
    /\ pc = "zip"
    /\ total_tokens_used = 1
    /\ Cardinality(DOMAIN written) >= 2

\* the lines a document calls for when n of its pages are done
ReportOf(pdf_file, n) ==
    << <<"folder">> \o splitext(basename(pdf_file)) >> \o
    [i \in 1..n |-> <<"file">> \o splitext(basename(pdf_file))
                              \o <<"_page_", DecStr(i), ".txt">>]

\* the lines the first k documents of the list call for
RECURSIVE ReportUpTo(_)
ReportUpTo(k) ==
    IF k = 0 THEN <<>>
    ELSE ReportUpTo(k - 1) \o ReportOf(pdfs[k], PageCount(fs.files[pdfs[k]]))

\* C12: the structure report holds, for every document in discovery order,
\* one folder line followed by one file line per page in page order, and
\* nothing else: #documents + #pages lines when process_pdfs returns
C12_StructureReport ==
    /\ pc = "doc" => structure_output = ReportUpTo(idx)
    /\ pc = "page" =>
          structure_output = ReportUpTo(idx) \o ReportOf(pdfs[idx + 1], page)
    /\ pc = "zip" =>
          /\ structure_output = ReportUpTo(Len(pdfs))
          /\ Len(structure_output) = Len(pdfs) + SumPages(fs, pdfs)

\* C12 witness: the report of two documents, one of them of two pages
C12_Witness ==
    /\ pc = "zip"
    /\ Len(pdfs) = 2
    /\ Len(structure_output) = 5

\* a / b < c / d for positive denominators
FracLess(x, y) == x[1] * y[2] < y[1] * x[2]

\* every page of the document has its transcript in the result directory
TranscriptsWritten(pdf_file) ==
    \A i \in 1..PageCount(fs.files[pdf_file]) :
        (result_path \o <<splitext(basename(pdf_file)),
                          splitext(basename(pdf_file))
                              \o <<"_page_", DecStr(i), ".txt">> >>)
            \in DOMAIN fs.files

\* C13: while process_pdfs runs over n >= 1 documents, the progress values
\* reported so far are 1/n .. k/n for the k documents whose pages are all
\* transcribed, one value per document; they increase strictly, lie within
\* [0, 1], and the last one, reported when the loop is over, is exactly 1
C13_Progress ==
    InProcess =>
        /\ Len(progress) = idx
        /\ \A k \in 1..Len(progress) :
              /\ progress[k] = <<k, Len(pdfs)>>
              /\ 0 <= progress[k][1] /\ progress[k][1] <= progress[k][2]
              /\ TranscriptsWritten(pdfs[k])
              /\ \A j \in 1..(k - 1) : FracLess(progress[j], progress[k])
        /\ (pc = "zip" /\ Len(pdfs) >= 1) =>
              /\ Len(progress) = Len(pdfs)
              /\ progress[Len(progress)][1] = progress[Len(progress)][2]

\* C13 witness: two documents processed, progress 1/2 then 2/2
C13_Witness ==
    /\ pc = "zip"
    /\ progress = << <<1, 2>>, <<2, 2>> >>

\* a directory that exists nowhere yet
Fresh == << <<"fresh">> >>

\* the files below top: relative path -> content
Tree(f, top) ==
    [rel \in {SubSeq(q, Len(top) + 1, Len(q)) : q \in FilesUnder(f, top)} |->
        f.files[top \o rel]]

\* extracting the archive into a fresh directory gives the files src holds
RoundTrip(archive, src) ==
    Tree(ExtractAll(makedirs(fs, Fresh), archive, Fresh), Fresh) = Tree(fs, src)

BeforeZip == pc \in {"upload", "start", "walk", "doc", "page"}

\* C15: a document that cannot be rasterized ends the pass with the error
\* of the rasterizer: the loop never goes past such a document, the pass
\* neither returns from process_pdfs nor builds an archive nor shows the
\* download button nor runs cleanup, and no step of the pass up to the
\* failure changes cleanup_trigger
C15_RasterizationAborts ==
    /\ [](/\ exc = "FileDataError" =>
               /\ pc = "idle"
               /\ ~ocr_done /\ ~zipped_in_pass /\ ~download_shown
               /\ zipped = NoFiles
               /\ cleanups = 0
          /\ InProcess =>
               /\ \A k \in 1..idx : fs.files[pdfs[k]] # CorruptPdf
               /\ pc = "page" => fs.files[pdfs[idx + 1]] # CorruptPdf)
    /\ [][BeforeZip => session_state' = session_state]_vars

\* C15 witness: the pass was aborted by the rasterizer after an earlier
\* document had been transcribed, with the flag set at that time
C15_Witness ==
    /\ exc = "FileDataError"
    /\ FilesUnder(fs, result_path) # {}
    /\ Pending

\* C16: an upload that is no valid archive leaves the pass without an
\* uncaught error
C16_InvalidUploadNonFatal ==
    (uploaded_zip # NoUpload /\ ~ZipValid(uploaded_zip.data)) => exc = ""

\* C17: without a credential the script stops at startup: session state is
\* never initialised, no directory or file is created, and no pass gets to
\* the upload block or to an OCR call
C17_NoCredentialNoState ==
    ~Configured(api_key) =>
        /\ session_state = [k \in {} |-> FALSE]
        /\ fs = EmptyFs
        /\ pc = "idle"

\* the result directories of the jobs: what is below each of them
ResultState ==
    [d \in {OutputRoot \o <<splitext(nm) \o <<"_ocr">> >> : nm \in UploadNames} |->
        [dirs  |-> {q \in fs.dirs : IsPrefix(d, q)},
         files |-> [q \in {r \in DOMAIN fs.files : IsPrefix(d, r)} |-> fs.files[q]]]]

=============================================================================
